---- MODULE Spec2Model ----
(***************************************************************************)
(* Artist photo generation jobs of the dashboard (src/dashboard/app.py):   *)
(* the artist_photo_jobs table, the background worker                      *)
(* run_photo_generation and the job API (create, get, select, delete);     *)
(* the generation handlers of the Telegram bot (src/telegram_bot.py) with  *)
(* their active_generations guard; and the dashboard's synchronous         *)
(* api_generate with the songs table.                                      *)
(***************************************************************************)
EXTENDS Integers, Sequences, FiniteSets, TLC

\* ------------------------------------------------------------- bounds
\* Number of job rows ever inserted (AUTOINCREMENT ids 1..MaxJobs).
MaxJobs == 1
\* Bot handler invocations pending at once.
MaxTasks == 2
\* api_generate requests in progress at once.
MaxCalls == 2
\* Marker lines in one stdout of the generator.
MaxLines == 2

\* ---------------------------------------------------------- constants
\* for i in range(4)
NumCandidates == 4

\* Two logged-in users (session['user_id']).
Users == {1, 2}

\* SQL NULL / Python None for TEXT columns and strings.
NULL == "NULL"
\* NULL for a photo file name (selected_photo, request.json.get('photo')
\* absent or empty) and for photo_url; file names are tuples, see DestFilename.
NoPhoto == <<>>
\* A file name that no job ever produces ("x.png").
ForeignPhoto == <<0, 0>>

\* data.get('artist_filename'): absent, or the artist "nova".
ArtistFilenames == {NULL, "nova"}
\* Rows of user_artists: user 1 owns a user artist with filename "nova".
UserArtistKeys == {<<1, "nova">>}
\* Files of ARTISTS_DIR: the system artist nova.md.
SystemArtistFiles == {"nova"}

\* str(e) of the exceptions that can escape the per-candidate loop.
ImportErrorMsg == "No module named 'generate'"
DbErrorMsg == "database is locked"

JobIds == 1..MaxJobs

\* The ids once one more job is created after a deletion.
LaterJobIds == 1..(MaxJobs + 1)

VARIABLES
    nextId,        \* next AUTOINCREMENT id of artist_photo_jobs
    job,           \* artist_photo_jobs: id -> row
    worker,        \* run_photo_generation threads: job id -> locals and position
    files,         \* file names present in ARTIST_PHOTOS_DIR
    user_artists,  \* user_artists.photo_url by <<user_id, filename>>
    artist_files,  \* ARTISTS_DIR/<name>.md content by name
    sel,           \* the api_select_artist_photo call between its checks and its writes
    del,           \* the api_delete_photo_job call between its unlink loop and its DELETE
    polled,        \* history: job id -> the photo_paths of the first terminal get response
    resp,          \* the response of the API call that has just returned
    active_generations,  \* telegram_bot.active_generations: the user ids that are keys
    task,          \* bot handler invocations: task id -> coroutine locals and position
    songs,         \* songs table: id -> row
    proc,          \* api_generate requests: slot -> the request inside subprocess.run
    gresp          \* the response of the api_generate call that has just returned

photoVars == <<nextId, job, worker, files, user_artists, artist_files, sel, del,
               polled, resp>>
botVars == <<active_generations, task>>
genVars == <<songs, proc, gresp>>

vars == <<photoVars, botVars, genVars>>

data == <<job, files, user_artists, artist_files>>

Range(s) == {s[k] : k \in 1..Len(s)}

\* ------------------------------------------------------------ helpers

\* DestFilename with the 0-based loop index as ordinal.
DestFilenameZeroBased(job_id, i) == <<job_id, i>>

\* dest_filename = f"job_{job_id}_option_{i+1}.png", i the 0-based loop index.
\* The name is the pair <<job id, ordinal>>.
DestFilename(job_id, i) == <<job_id, i + 1>>

\* photo_url = f'/artist-photos/{selected_photo}'
PhotoUrl(photo) == <<"/artist-photos/", photo>>

\* NewJobId of a table declared without AUTOINCREMENT: one more than the
\* largest id in the table.
NewJobIdMaxPlusOne(table, next) ==
    IF DOMAIN table = {} THEN 1
    ELSE 1 + CHOOSE m \in DOMAIN table : \A x \in DOMAIN table : x <= m

\* id INTEGER PRIMARY KEY AUTOINCREMENT: the id of a new row is larger than
\* every id the table ever held (next is the table's sequence).
NewJobId(table, next) == next

\* The status written by the INSERT of api_generate_artist_photos.
InsertStatus == "generating"

\* The row written by the INSERT: the columns it names, the rest NULL.
NewRow(u, a) ==
    [user_id |-> u, artist_filename |-> a, status |-> InsertStatus,
     photo_paths |-> <<>>, selected_photo |-> NoPhoto,
     completed_at |-> FALSE, error |-> NULL]

\* Thread(target=run_photo_generation): the worker before its first statement.
\* attempted is the outcome of each candidate attempt so far (TRUE: a file
\* was copied and its name appended), exc the exception that escaped the
\* per-candidate loop.
NewWorker ==
    [pc |-> "import", i |-> 0, generated_paths |-> <<>>,
     attempted |-> <<>>, exc |-> NULL]

\* No select call is between its checks and its writes.
NoSel == [user |-> 0, job_id |-> 0, photo |-> NoPhoto, artist_filename |-> NULL]

NoResp == [op |-> "none", user |-> 0, job_id |-> 0, code |-> 0, error |-> NULL]

Ok(op, u, j) == [op |-> op, user |-> u, job_id |-> j, code |-> 200, error |-> NULL]

Err(op, u, j, code, msg) ==
    [op |-> op, user |-> u, job_id |-> j, code |-> code, error |-> msg]

\* FindJob without "AND user_id = ?".
FindJobAnyOwner(table, u, j) == j \in DOMAIN table

\* SELECT * FROM artist_photo_jobs WHERE id = ? AND user_id = ?
FindJob(table, u, j) == j \in DOMAIN table /\ table[j].user_id = u

\* FindCompletedJob without "AND user_id = ?".
FindCompletedJobAnyOwner(table, u, j) ==
    j \in DOMAIN table /\ table[j].status = "completed"

\* SELECT ... WHERE id = ? AND user_id = ? AND status = 'completed'
FindCompletedJob(table, u, j) ==
    j \in DOMAIN table /\ table[j].user_id = u /\ table[j].status = "completed"

\* PhotoListed without the membership test.
PhotoListedAlways(table, j, photo) == TRUE

\* selected_photo not in photo_paths -> 400
PhotoListed(table, j, photo) == photo \in Range(table[j].photo_paths)

\* The elements of s that are not x, in order.
RECURSIVE Without(_, _)
Without(s, x) ==
    IF s = <<>> THEN <<>>
    ELSE IF Head(s) = x THEN Without(Tail(s), x)
    ELSE <<Head(s)>> \o Without(Tail(s), x)

\* GetResponse that lists the selected photo first.
GetResponseSelectedFirst(table, u, j) ==
    IF FindJob(table, u, j)
    THEN [op |-> "get", user |-> u, job_id |-> j, code |-> 200, error |-> NULL,
          body |-> IF table[j].selected_photo = NoPhoto THEN table[j]
                   ELSE [table[j] EXCEPT !.photo_paths =
                            <<table[j].selected_photo>>
                                \o Without(@, table[j].selected_photo)]]
    ELSE Err("get", u, j, 404, "Job not found")

\* The response of api_get_photo_job: the row as JSON (photo_paths decoded),
\* or 404.
GetResponse(table, u, j) ==
    IF FindJob(table, u, j)
    THEN [op |-> "get", user |-> u, job_id |-> j, code |-> 200, error |-> NULL,
          body |-> table[j]]
    ELSE Err("get", u, j, 404, "Job not found")

\* SelectError without the "not in photo_paths" check.
SelectErrorNoListCheck(table, u, j, photo) ==
    IF ~FindCompletedJob(table, u, j)
    THEN Err("select", u, j, 404, "Job not found or not completed")
    ELSE IF photo = NoPhoto
    THEN Err("select", u, j, 400, "No photo selected")
    ELSE NoResp

\* The error response of api_select_artist_photo, NoResp when every check passes.
SelectError(table, u, j, photo) ==
    IF ~FindCompletedJob(table, u, j)
    THEN Err("select", u, j, 404, "Job not found or not completed")
    ELSE IF photo = NoPhoto
    THEN Err("select", u, j, 400, "No photo selected")
    ELSE IF ~PhotoListed(table, j, photo)
    THEN Err("select", u, j, 400, "Invalid photo selection")
    ELSE NoResp

\* No delete call is between its unlink loop and its DELETE.
NoDel == [user |-> 0, job_id |-> 0, photo_paths |-> <<>>, skipped |-> FALSE]

\* str(e) of the FileNotFoundError of Path.unlink.
UnlinkErrorMsg == "No such file or directory"

\* The files a loop of bare unlink() calls removes before it stops.
RECURSIVE UnlinkUntilMissing(_, _)
UnlinkUntilMissing(fs, paths) ==
    IF paths = <<>> \/ Head(paths) \notin fs THEN fs
    ELSE UnlinkUntilMissing(fs \ {Head(paths)}, Tail(paths))

\* UnlinkListed without the exists() test: unlink raises on a missing file.
UnlinkListedNoExistsTest(fs, paths) ==
    [files |-> UnlinkUntilMissing(fs, paths),
     raised |-> ~(Range(paths) \subseteq fs)]

\* The unlink loop of api_delete_photo_job: every listed file that exists is
\* unlinked, a missing one is passed over; nothing is raised.
UnlinkListed(fs, paths) == [files |-> fs \ Range(paths), raised |-> FALSE]

\* UPDATE artist_photo_jobs SET selected_photo = ? WHERE id = ?
UpdateSelected(table, j, photo) ==
    [x \in DOMAIN table |->
        IF x = j THEN [table[x] EXCEPT !.selected_photo = photo] ELSE table[x]]

\* FinalizeRow without the "if generated_paths" test.
FinalizeRowAlwaysCompleted(row, generated_paths) ==
    [row EXCEPT !.status = "completed", !.photo_paths = generated_paths,
                !.completed_at = TRUE]

\* FinalizeRow whose failed branch does not set the error column.
FinalizeRowNoError(row, generated_paths) ==
    IF generated_paths # <<>>
    THEN [row EXCEPT !.status = "completed", !.photo_paths = generated_paths,
                     !.completed_at = TRUE]
    ELSE [row EXCEPT !.status = "failed", !.completed_at = TRUE]

\* The finalize UPDATE of the worker: completed with the list when
\* generated_paths is non-empty, failed otherwise.
FinalizeRow(row, generated_paths) ==
    IF generated_paths # <<>>
    THEN [row EXCEPT !.status = "completed", !.photo_paths = generated_paths,
                     !.completed_at = TRUE]
    ELSE [row EXCEPT !.status = "failed", !.error = "All generations failed",
                     !.completed_at = TRUE]

\* ExceptRow that does not set completed_at.
ExceptRowNoCompletedAt(row, e) ==
    [row EXCEPT !.status = "failed", !.error = e]

\* The UPDATE of the worker's outer except clause.
ExceptRow(row, e) ==
    [row EXCEPT !.status = "failed", !.error = e, !.completed_at = TRUE]

\* UPDATE ... WHERE id = ?: no row matches once the job is deleted.
UpdateRow(table, j, row) ==
    [x \in DOMAIN table |-> IF x = j THEN row ELSE table[x]]

\* AfterAttempt with break in place of continue in the inner except clause.
AfterAttemptBreak(i, ok) ==
    IF ok /\ i + 1 < NumCandidates THEN "loop" ELSE "finalize"

\* The position of the worker after candidate attempt i (0-based) ended,
\* by appending or by the inner except clause's continue.
AfterAttempt(i, ok) == IF i + 1 < NumCandidates THEN "loop" ELSE "finalize"

\* FinalizeOutcomes with an exception raised after the commit.
FinalizeOutcomesCloseRaises == {"committed", "raised", "close_raised"}

\* How the finalize block (connect, UPDATE, commit, close) can end:
\* "committed": the UPDATE is committed and the try block ends;
\* "raised": connect, execute or commit raises, nothing is written.
\* Only db.close() follows db.commit() inside the try block and it does not
\* raise, so no exception reaches the outer except clause after the commit.
FinalizeOutcomes == {"committed", "raised"}

\* The rewrite of an artist file: photo_url is added to or replaced in the
\* frontmatter; a file without frontmatter is left alone.
WritePhotoUrl(content, url) ==
    IF content.frontmatter THEN [content EXCEPT !.photo_url = url] ELSE content

\* SelectWrites whose UPDATE keeps a selected_photo that is already set.
SelectWritesKeepFirst(table, ua, af, s) ==
    [job |-> IF s.job_id \in DOMAIN table /\ table[s.job_id].selected_photo # NoPhoto
             THEN table ELSE UpdateSelected(table, s.job_id, s.photo),
     user_artists |-> ua, artist_files |-> af]

\* The writes of api_select_artist_photo for the call s (its user, job id,
\* photo and the artist_filename of the row it read): the job's
\* selected_photo; then, when the job names an artist, the photo_url of the
\* user's own artist row if there is one, else of the system artist file if
\* it exists.
SelectWrites(table, ua, af, s) ==
    LET a == s.artist_filename
        key == <<s.user, a>>
        url == PhotoUrl(s.photo)
    IN
    [job |-> UpdateSelected(table, s.job_id, s.photo),
     user_artists |-> IF a # NULL /\ key \in DOMAIN ua
                      THEN [ua EXCEPT ![key] = url] ELSE ua,
     artist_files |-> IF a # NULL /\ key \notin DOMAIN ua /\ a \in DOMAIN af
                      THEN [af EXCEPT ![a] = WritePhotoUrl(@, url)] ELSE af]

\* ------------------------------------------------- Telegram bot helpers

\* Handler invocations that can be pending at once.
TaskIds == 1..MaxTasks

\* The generation handlers by shape: generate_song (replies "no audio file
\* found" when there is no file), collab_song (as do battle, album_mode,
\* vibe_mode, fusion_mode, like_mode, remix_mode, reroll_mode and
\* lyrics_only: usage check, no such reply) and queue_run (no usage check).
HandlerKinds == {"generate_song", "collab_song", "queue_run"}

\* How the subprocess of run_generate can end.
RunOutcomes == {"exit_with_audio", "exit_no_audio", "timeout", "launch_failed"}

BusyReply == "You already have a generation in progress. Please wait."
UsageReply == "Usage"
ProgressReply == "This may take 2-5 minutes..."
OutputText == "generate.sh output"
TimeoutText == "Generation timed out (10 min limit)"
LaunchErrorText == "Error: [Errno 2] No such file or directory"
NoAudioReply == "Generation complete but no audio file found"
AudioReply == "audio"
ErrorReply == "Error: reply failed"

\* run_generate: (output, all_files non-empty) for each end of the subprocess.
RunGenerate(outcome) ==
    CASE outcome = "exit_with_audio" -> [output |-> OutputText, all_files |-> TRUE]
      [] outcome = "exit_no_audio" -> [output |-> OutputText, all_files |-> FALSE]
      [] outcome = "timeout" -> [output |-> TimeoutText, all_files |-> FALSE]
      [] outcome = "launch_failed" -> [output |-> LaunchErrorText, all_files |-> FALSE]

\* A handler invocation that has not been dispatched: its user, handler,
\* position, the result of run_generate, whether run_generate was called and
\* the replies it has sent.
NoTask ==
    [user |-> 0, kind |-> "none", pc |-> "idle", output |-> NULL,
     all_files |-> FALSE, ran |-> FALSE, replies |-> <<>>]

\* InFlight for a guard that never finds the key.
InFlightNever(active, u) == FALSE

\* user_id in active_generations
InFlight(active, u) == u \in active

\* The positions between active_generations[user_id] = ... and the pop of
\* the finally clause.
WindowPcs ==
    {"progress_reply", "summary_reply", "audio_reply", "no_audio_reply",
     "error_reply"}

\* MarkersAfterStart with the key set before the usage checks.
MarkersAfterStartSetBeforeUsage(active, u, pc) ==
    IF pc \in {"progress_reply", "usage_reply"} THEN active \cup {u} ELSE active

\* active_generations when the handler reaches its first await at pc: the
\* key is set only on the way to the progress reply, after the busy test and
\* the usage checks have returned.
MarkersAfterStart(active, u, pc) ==
    IF pc = "progress_reply" THEN active \cup {u} ELSE active

\* The position after the summary reply was sent.
AfterSummary(kind, all_files) ==
    IF all_files THEN "audio_reply"
    ELSE IF kind = "generate_song" THEN "no_audio_reply"
    ELSE "done"

\* ------------------------------------------------- api_generate helpers

\* Requests that can be inside api_generate at once (the server's threads).
Slots == 1..MaxCalls

\* The marker lines of the generator's stdout; other lines are not kept.
Lines ==
    [key : {"SONG_ID"}, value : {"1", "2"}]
        \cup [key : {"AUDIO_FILE"}, value : {"a.mp3", "b.mp3"}]

RECURSIVE SeqsUpTo(_, _)
SeqsUpTo(S, n) ==
    IF n = 0 THEN {<<>>}
    ELSE LET shorter == SeqsUpTo(S, n - 1) IN
         shorter \cup {Append(s, x) : s \in shorter, x \in S}

\* result.stdout, as its marker lines in order.
Stdouts == SeqsUpTo(Lines, MaxLines)

ReturnCodes == {0, 1}

\* TimeoutExpired.stdout: what the child had written when it was killed,
\* nothing or both markers.
PartialStdouts ==
    {<<>>, <<[key |-> "SONG_ID", value |-> "1"],
             [key |-> "AUDIO_FILE", value |-> "a.mp3"]>>}

\* int(song_id_match.group(1))
ParseInt(digits) == CASE digits = "1" -> 1 [] digits = "2" -> 2

\* re.search(key + '=(...)', stdout): <<>> when nothing matches, else the
\* group of the leftmost match.
RECURSIVE Search(_, _)
Search(stdout, key) ==
    IF stdout = <<>> THEN <<>>
    ELSE IF Head(stdout).key = key THEN <<Head(stdout).value>>
    ELSE Search(Tail(stdout), key)

\* ShouldPersist that also asks for exit status 0.
ShouldPersistOnZeroExit(stdout, returncode) ==
    Search(stdout, "SONG_ID") # <<>> /\ Search(stdout, "AUDIO_FILE") # <<>>
        /\ returncode = 0

\* if song_id_match and audio_match
ShouldPersist(stdout, returncode) ==
    Search(stdout, "SONG_ID") # <<>> /\ Search(stdout, "AUDIO_FILE") # <<>>

\* The songs row of the INSERT OR REPLACE (the columns the claims read).
SongRow(u, audio_file) == [user_id |-> u, file_path |-> audio_file]

\* INSERT OR REPLACE INTO songs (id, ...): a row with that id is replaced.
InsertOrReplace(table, id, row) ==
    [x \in DOMAIN table \cup {id} |-> IF x = id THEN row ELSE table[x]]

NoProc == [user |-> 0, pc |-> "idle"]

NoGResp == [user |-> 0, code |-> 0]

\* jsonify({'success': False, 'error': msg}), 500
GErr(u, msg) == [user |-> u, code |-> 500, success |-> FALSE, error |-> msg]

TimeoutMsg == "Generation timed out"
LaunchErrorMsg == "[Errno 2] No such file or directory"

\* What api_generate does once the child process has exited: the songs
\* table and the response.
AfterExit(table, u, run) ==
    LET song_id_match == Search(run.stdout, "SONG_ID")
        audio_match == Search(run.stdout, "AUDIO_FILE")
        response ==
            [user |-> u, code |-> 200, success |-> (run.returncode = 0),
             output |-> run.stdout,
             audio_file |-> IF audio_match # <<>> THEN audio_match[1] ELSE NULL]
    IN
    IF ShouldPersist(run.stdout, run.returncode)
    THEN IF run.db_ok
         THEN [songs |-> InsertOrReplace(table, ParseInt(song_id_match[1]),
                                         SongRow(u, audio_match[1])),
               resp |-> response]
         ELSE [songs |-> table, resp |-> GErr(u, DbErrorMsg)]
    ELSE [songs |-> table, resp |-> response]

\* ApiGenerateResult that parses the partial output of a timed out process.
ApiGenerateResultParsePartial(table, u, run) ==
    CASE run.kind = "launch_failed" -> [songs |-> table, resp |-> GErr(u, LaunchErrorMsg)]
      [] run.kind = "timeout" -> AfterExit(table, u, run)
      [] run.kind = "exited" -> AfterExit(table, u, run)

\* The try block of api_generate and its except clauses, for each way
\* subprocess.run can end: it raises before the child runs, it raises
\* TimeoutExpired, or it returns.
ApiGenerateResult(table, u, run) ==
    CASE run.kind = "launch_failed" -> [songs |-> table, resp |-> GErr(u, LaunchErrorMsg)]
      [] run.kind = "timeout" -> [songs |-> table, resp |-> GErr(u, TimeoutMsg)]
      [] run.kind = "exited" -> AfterExit(table, u, run)

\* How the writes of api_select_artist_photo can end:
\* "committed": both UPDATEs and the file write are done and committed;
\* "raised": an UPDATE or the file rewrite raises, nothing is kept;
\* "commit_raised": db.commit() raises after the writes.
SelectOutcomes == {"committed", "raised", "commit_raised"}

\* ------------------------------------------------------------ initial

Init ==
    /\ nextId = 1
    /\ job = <<>>
    /\ worker = <<>>
    /\ files = {}
    /\ user_artists = [k \in UserArtistKeys |-> NoPhoto]
    /\ artist_files = [n \in SystemArtistFiles |->
                          [frontmatter |-> TRUE, photo_url |-> NoPhoto]]
    /\ sel = NoSel
    /\ del = NoDel
    /\ polled = [j \in JobIds |-> <<>>]
    /\ resp = NoResp
    /\ active_generations = {}
    /\ task = [t \in TaskIds |-> NoTask]
    /\ songs = <<>>
    /\ proc = [p \in Slots |-> NoProc]
    /\ gresp = NoGResp

\* ------------------------------------------------------------ job API

\* api_generate_artist_photos: INSERT, commit, start the thread, return job_id.
InsertJob(u, a) ==
    LET id == NewJobId(job, nextId) IN
    /\ job' = [x \in DOMAIN job \cup {id} |->
                  IF x = id THEN NewRow(u, a) ELSE job[x]]
    /\ worker' = [x \in DOMAIN worker \cup {id} |->
                  IF x = id THEN NewWorker ELSE worker[x]]
    /\ nextId' = nextId + 1
    /\ resp' = Ok("create", u, id)
    /\ UNCHANGED <<files, user_artists, artist_files, sel, del, polled>>
    /\ UNCHANGED <<botVars, genVars>>

\* api_generate_artist_photos while fewer than MaxJobs rows were ever inserted.
Create(u, a) == nextId <= MaxJobs /\ InsertJob(u, a)

\* api_generate_artist_photos for one more job, after an earlier job's row
\* was deleted.
CreateLater(u, a) == nextId <= MaxJobs + 1 /\ InsertJob(u, a)

\* api_get_photo_job
Get(u, j) ==
    /\ resp' = GetResponse(job, u, j)
    /\ polled' = IF FindJob(job, u, j) /\ job[j].status \in {"completed", "failed"}
                    /\ polled[j] = <<>>
                 THEN [polled EXCEPT ![j] = <<resp'.body.photo_paths>>]
                 ELSE polled
    /\ UNCHANGED <<nextId, job, worker, files, user_artists, artist_files, sel, del>>
    /\ UNCHANGED <<botVars, genVars>>

\* api_select_artist_photo up to its last check: an error response, or the
\* call goes on to its writes.
SelectCheck(u, j, photo) ==
    /\ sel = NoSel
    /\ LET e == SelectError(job, u, j, photo) IN
        /\ resp' = e
        /\ sel' = IF e = NoResp
                  THEN [user |-> u, job_id |-> j, photo |-> photo,
                        artist_filename |-> job[j].artist_filename]
                  ELSE NoSel
    /\ UNCHANGED <<nextId, job, worker, files, user_artists, artist_files, del, polled>>
    /\ UNCHANGED <<botVars, genVars>>

\* api_select_artist_photo from the UPDATE of the job to the response: the
\* job's selected_photo, then the artist's photo_url (user artist row first,
\* else the system artist file), then commit. The two UPDATEs are in one
\* transaction, which the teardown's close rolls back when it was not
\* committed; write_text has written the artist file before the commit.
SelectApply ==
    /\ sel # NoSel
    /\ \E outcome \in SelectOutcomes :
        LET w == SelectWrites(job, user_artists, artist_files, sel) IN
        /\ job' = IF outcome = "committed" THEN w.job ELSE job
        /\ user_artists' = IF outcome = "committed" THEN w.user_artists
                           ELSE user_artists
        /\ artist_files' = IF outcome = "raised" THEN artist_files
                           ELSE w.artist_files
        /\ resp' = IF outcome = "committed" THEN Ok("select", sel.user, sel.job_id)
                   ELSE Err("select", sel.user, sel.job_id, 500, DbErrorMsg)
    /\ sel' = NoSel
    /\ UNCHANGED <<nextId, worker, files, del, polled>>
    /\ UNCHANGED <<botVars, genVars>>

\* api_delete_photo_job up to the end of its unlink loop: 404, or the listed
\* files that exist are unlinked and the call goes on to its DELETE.
Delete(u, j) ==
    /\ del = NoDel
    /\ IF ~FindJob(job, u, j)
       THEN /\ resp' = Err("delete", u, j, 404, "Job not found")
            /\ UNCHANGED <<files, del>>
       ELSE LET r == UnlinkListed(files, job[j].photo_paths) IN
            /\ files' = r.files
            /\ resp' = IF r.raised THEN Err("delete", u, j, 500, UnlinkErrorMsg)
                       ELSE NoResp
            /\ del' = IF r.raised THEN NoDel
                      ELSE [user |-> u, job_id |-> j,
                            photo_paths |-> job[j].photo_paths,
                            skipped |-> ~(Range(job[j].photo_paths) \subseteq files)]
    /\ UNCHANGED <<nextId, job, worker, user_artists, artist_files, sel, polled>>
    /\ UNCHANGED <<botVars, genVars>>

\* api_delete_photo_job from its DELETE to the response: the row is deleted
\* and committed, or execute or commit raises and the request ends with 500.
DeleteRow ==
    /\ del # NoDel
    /\ \E ok \in BOOLEAN :
        /\ job' = IF ok THEN [x \in DOMAIN job \ {del.job_id} |-> job[x]] ELSE job
        /\ resp' = IF ok THEN Ok("delete", del.user, del.job_id)
                   ELSE Err("delete", del.user, del.job_id, 500, DbErrorMsg)
    /\ del' = NoDel
    /\ UNCHANGED <<nextId, worker, files, user_artists, artist_files, sel, polled>>
    /\ UNCHANGED <<botVars, genVars>>

\* ------------------------------------------------------------- worker

\* from generate import generate, OUTPUT_DIR: succeeds, or raises into the
\* outer except clause.
WorkerImport(j) ==
    /\ j \in DOMAIN worker
    /\ worker[j].pc = "import"
    /\ \E ok \in BOOLEAN :
        worker' = [worker EXCEPT ![j] =
            IF ok THEN [@ EXCEPT !.pc = "loop"]
            ELSE [@ EXCEPT !.pc = "except", !.exc = ImportErrorMsg]]
    /\ resp' = NoResp
    /\ UNCHANGED <<nextId, job, files, user_artists, artist_files, sel, del, polled>>
    /\ UNCHANGED <<botVars, genVars>>

\* One iteration of the loop: generate() and shutil.copy() succeed and the
\* name is appended, or one of them raises and the inner except continues.
WorkerAttempt(j) ==
    /\ j \in DOMAIN worker
    /\ worker[j].pc = "loop"
    /\ \E ok \in BOOLEAN :
        LET w == worker[j]
            name == DestFilename(j, w.i)
        IN
        /\ files' = IF ok THEN files \cup {name} ELSE files
        /\ worker' = [worker EXCEPT ![j] =
              [@ EXCEPT !.pc = AfterAttempt(w.i, ok),
                        !.i = w.i + 1,
                        !.generated_paths =
                            IF ok THEN Append(w.generated_paths, name)
                            ELSE w.generated_paths,
                        !.attempted = Append(w.attempted, ok)]]
    /\ resp' = NoResp
    /\ UNCHANGED <<nextId, job, user_artists, artist_files, sel, del, polled>>
    /\ UNCHANGED <<botVars, genVars>>

\* sqlite3.connect, the finalize UPDATE, commit, close: committed, or an
\* exception leaves the row as it was and enters the outer except clause.
WorkerFinalize(j) ==
    /\ j \in DOMAIN worker
    /\ worker[j].pc = "finalize"
    /\ \E outcome \in FinalizeOutcomes :
        /\ job' = IF outcome # "raised" /\ j \in DOMAIN job
                  THEN UpdateRow(job, j, FinalizeRow(job[j], worker[j].generated_paths))
                  ELSE job
        /\ worker' = [worker EXCEPT ![j] =
              IF outcome = "committed" THEN [@ EXCEPT !.pc = "done"]
              ELSE [@ EXCEPT !.pc = "except", !.exc = DbErrorMsg]]
    /\ resp' = NoResp
    /\ UNCHANGED <<nextId, files, user_artists, artist_files, sel, del, polled>>
    /\ UNCHANGED <<botVars, genVars>>

\* The outer except clause: the failed UPDATE is committed, or the clause
\* itself raises and the thread ends with the row as it was.
WorkerExcept(j) ==
    /\ j \in DOMAIN worker
    /\ worker[j].pc = "except"
    /\ \E ok \in BOOLEAN :
        /\ job' = IF ok /\ j \in DOMAIN job
                  THEN UpdateRow(job, j, ExceptRow(job[j], worker[j].exc))
                  ELSE job
        /\ worker' = [worker EXCEPT ![j] =
              [@ EXCEPT !.pc = IF ok THEN "done" ELSE "crashed"]]
    /\ resp' = NoResp
    /\ UNCHANGED <<nextId, files, user_artists, artist_files, sel, del, polled>>
    /\ UNCHANGED <<botVars, genVars>>

\* ------------------------------------------------------- Telegram bot

\* A generation handler from its dispatch to its first await: the busy
\* reply, the usage reply, or the marker is set and the progress reply is
\* next. args_ok: the arguments pass the handler's usage checks.
BotStart(t, u, kind, args_ok) ==
    /\ task[t].pc \in {"idle", "done"}
    /\ LET pc == IF InFlight(active_generations, u) THEN "busy_reply"
                 ELSE IF kind # "queue_run" /\ ~args_ok THEN "usage_reply"
                 ELSE "progress_reply"
       IN
        /\ task' = [task EXCEPT ![t] =
                       [NoTask EXCEPT !.user = u, !.kind = kind, !.pc = pc]]
        /\ active_generations' = MarkersAfterStart(active_generations, u, pc)
    /\ UNCHANGED <<photoVars, genVars>>

\* The busy or usage reply ends, sent or raised, and the handler returns.
BotReject(t) ==
    /\ task[t].pc \in {"busy_reply", "usage_reply"}
    /\ \E ok \in BOOLEAN :
        task' = [task EXCEPT ![t] =
            [@ EXCEPT !.pc = "done",
                      !.replies = IF ~ok THEN @
                                  ELSE IF task[t].pc = "busy_reply"
                                  THEN Append(@, BusyReply)
                                  ELSE Append(@, UsageReply)]]
    /\ UNCHANGED active_generations
    /\ UNCHANGED <<photoVars, genVars>>

\* The progress reply, which is awaited before the try statement: it raises
\* and the exception leaves the handler, or it is sent and run_generate runs
\* to its return without an await.
BotProgress(t) ==
    /\ task[t].pc = "progress_reply"
    /\ \E ok \in BOOLEAN, outcome \in RunOutcomes :
        LET r == RunGenerate(outcome) IN
        task' = [task EXCEPT ![t] =
            IF ok
            THEN [@ EXCEPT !.pc = "summary_reply",
                           !.replies = Append(@, ProgressReply),
                           !.ran = TRUE,
                           !.output = r.output,
                           !.all_files = r.all_files]
            ELSE [@ EXCEPT !.pc = "done"]]
    /\ UNCHANGED active_generations
    /\ UNCHANGED <<photoVars, genVars>>

\* The reply with the output of run_generate: sent, and the audio, the
\* "no audio file" reply or the finally clause is next; or it raises into
\* the except clause.
BotSummary(t) ==
    /\ task[t].pc = "summary_reply"
    /\ \E ok \in BOOLEAN :
        LET pc == IF ok THEN AfterSummary(task[t].kind, task[t].all_files)
                  ELSE "error_reply"
        IN
        /\ task' = [task EXCEPT ![t] =
              [@ EXCEPT !.pc = pc,
                        !.replies = IF ok THEN Append(@, task[t].output) ELSE @]]
        /\ active_generations' =
              IF pc = "done" THEN active_generations \ {task[t].user}
              ELSE active_generations
    /\ UNCHANGED <<photoVars, genVars>>

\* The last reply of the try block (the audio files, or generate_song's
\* "no audio file" reply): sent, then the finally clause; or it raises into
\* the except clause.
BotLastReply(t) ==
    /\ task[t].pc \in {"audio_reply", "no_audio_reply"}
    /\ \E ok \in BOOLEAN :
        /\ task' = [task EXCEPT ![t] =
              [@ EXCEPT !.pc = IF ok THEN "done" ELSE "error_reply",
                        !.replies = IF ~ok THEN @
                                    ELSE IF task[t].pc = "audio_reply"
                                    THEN Append(@, AudioReply)
                                    ELSE Append(@, NoAudioReply)]]
        /\ active_generations' =
              IF ok THEN active_generations \ {task[t].user}
              ELSE active_generations
    /\ UNCHANGED <<photoVars, genVars>>

\* The reply of the except clause, sent or raised, then the finally clause.
BotErrorReply(t) ==
    /\ task[t].pc = "error_reply"
    /\ \E ok \in BOOLEAN :
        task' = [task EXCEPT ![t] =
            [@ EXCEPT !.pc = "done",
                      !.replies = IF ok THEN Append(@, ErrorReply) ELSE @]]
    /\ active_generations' = active_generations \ {task[t].user}
    /\ UNCHANGED <<photoVars, genVars>>

\* ------------------------------------------------------- api_generate

\* api_generate up to subprocess.run: the child process runs, or
\* subprocess.run raises before it does.
ApiGenerateStart(p, u) ==
    /\ proc[p] = NoProc
    /\ \E launched \in BOOLEAN :
        IF launched
        THEN /\ proc' = [proc EXCEPT ![p] = [user |-> u, pc |-> "running"]]
             /\ gresp' = NoGResp
             /\ UNCHANGED songs
        ELSE LET r == ApiGenerateResult(songs, u,
                        [kind |-> "launch_failed", stdout |-> <<>>,
                         returncode |-> 1, db_ok |-> TRUE])
             IN /\ songs' = r.songs
                /\ gresp' = r.resp
                /\ UNCHANGED proc
    /\ UNCHANGED <<photoVars, botVars>>

\* subprocess.run raises TimeoutExpired; stdout is what the child had
\* written by then.
ApiGenerateTimeout(p) ==
    /\ proc[p].pc = "running"
    /\ \E stdout \in PartialStdouts :
        LET r == ApiGenerateResult(songs, proc[p].user,
                    [kind |-> "timeout", stdout |-> stdout,
                     returncode |-> 1, db_ok |-> TRUE])
        IN /\ songs' = r.songs
           /\ gresp' = r.resp
    /\ proc' = [proc EXCEPT ![p] = NoProc]
    /\ UNCHANGED <<photoVars, botVars>>

\* subprocess.run returns: the markers are searched, the row is written
\* (or the write raises) and the response is returned.
ApiGenerateExit(p) ==
    /\ proc[p].pc = "running"
    /\ \E stdout \in Stdouts, returncode \in ReturnCodes, db_ok \in BOOLEAN :
        LET r == ApiGenerateResult(songs, proc[p].user,
                    [kind |-> "exited", stdout |-> stdout,
                     returncode |-> returncode, db_ok |-> db_ok])
        IN /\ songs' = r.songs
           /\ gresp' = r.resp
    /\ proc' = [proc EXCEPT ![p] = NoProc]
    /\ UNCHANGED <<photoVars, botVars>>

\* The photo names a select request may carry for job j.
PhotoInputs(j) ==
    {NoPhoto, ForeignPhoto} \cup {DestFilename(j, i) : i \in 0..(NumCandidates - 1)}

Next ==
    \/ \E u \in Users, a \in ArtistFilenames : Create(u, a)
    \/ \E u \in Users, j \in JobIds : Get(u, j)
    \/ \E u \in Users, j \in JobIds : \E p \in PhotoInputs(j) : SelectCheck(u, j, p)
    \/ SelectApply
    \/ \E u \in Users, j \in JobIds : Delete(u, j)
    \/ DeleteRow
    \/ \E j \in JobIds : WorkerImport(j)
    \/ \E j \in JobIds : WorkerAttempt(j)
    \/ \E j \in JobIds : WorkerFinalize(j)
    \/ \E j \in JobIds : WorkerExcept(j)

Spec == Init /\ [][Next]_vars

\* The state after user 1 created job 1 and deleted it while it was
\* generating, the worker of job 1 having copied the file of its first
\* attempt, failed the other three and reached the finalize block.
RecreateInit ==
    /\ nextId = MaxJobs + 1
    /\ job = <<>>
    /\ worker = [j \in JobIds |->
                    [pc |-> "finalize", i |-> NumCandidates,
                     generated_paths |-> <<DestFilename(j, 0)>>,
                     attempted |-> [k \in 1..NumCandidates |-> k = 1],
                     exc |-> NULL]]
    /\ files = {DestFilename(j, 0) : j \in JobIds}
    /\ user_artists = [k \in UserArtistKeys |-> NoPhoto]
    /\ artist_files = [n \in SystemArtistFiles |->
                          [frontmatter |-> TRUE, photo_url |-> NoPhoto]]
    /\ sel = NoSel
    /\ del = NoDel
    /\ polled = [j \in LaterJobIds |-> <<>>]
    /\ resp = NoResp
    /\ active_generations = {}
    /\ task = [t \in TaskIds |-> NoTask]
    /\ songs = <<>>
    /\ proc = [p \in Slots |-> NoProc]
    /\ gresp = NoGResp

\* The job API and the workers once the first jobs are deleted: one more job
\* is created, and requests name the old ids and the new one.
RecreateNext ==
    \/ \E u \in Users, a \in ArtistFilenames : CreateLater(u, a)
    \/ \E u \in Users, j \in LaterJobIds : Get(u, j)
    \/ \E u \in Users, j \in LaterJobIds : \E p \in PhotoInputs(j) : SelectCheck(u, j, p)
    \/ SelectApply
    \/ \E u \in Users, j \in LaterJobIds : Delete(u, j)
    \/ DeleteRow
    \/ \E j \in LaterJobIds : WorkerImport(j)
    \/ \E j \in LaterJobIds : WorkerAttempt(j)
    \/ \E j \in LaterJobIds : WorkerFinalize(j)
    \/ \E j \in LaterJobIds : WorkerExcept(j)

RecreateSpec == RecreateInit /\ [][RecreateNext]_vars

\* The bot's handlers, called for updates of any user in any order.
BotNext ==
    \/ \E t \in TaskIds, u \in Users, kind \in HandlerKinds, args_ok \in BOOLEAN :
            BotStart(t, u, kind, args_ok)
    \/ \E t \in TaskIds : BotReject(t)
    \/ \E t \in TaskIds : BotProgress(t)
    \/ \E t \in TaskIds : BotSummary(t)
    \/ \E t \in TaskIds : BotLastReply(t)
    \/ \E t \in TaskIds : BotErrorReply(t)

BotSpec == Init /\ [][BotNext]_vars

\* POST /api/generate requests of any user, served by concurrent threads.
GenNext ==
    \/ \E p \in Slots, u \in Users : ApiGenerateStart(p, u)
    \/ \E p \in Slots : ApiGenerateTimeout(p)
    \/ \E p \in Slots : ApiGenerateExit(p)

GenSpec == Init /\ [][GenNext]_vars

\* -------------------------------------------------------------- claims

Terminal == {"completed", "failed"}

\* The worker of job j is past the per-candidate loop or has ended.
Ended(j) == worker[j].pc \in {"done", "crashed"}

\* The number of candidate attempts of job j that produced an artifact.
Successes(j) == Cardinality({k \in 1..Len(worker[j].attempted) : worker[j].attempted[k]})

\* The artifact names of the successful attempts of job j, by attempt index.
RECURSIVE NamesOf(_, _, _)
NamesOf(j, outcomes, k) ==
    IF k > Len(outcomes) THEN <<>>
    ELSE (IF outcomes[k] THEN <<DestFilename(j, k - 1)>> ELSE <<>>)
         \o NamesOf(j, outcomes, k + 1)

\* An exception escaped the per-candidate loop of job j's worker.
Escaped(j) == worker[j].exc # NULL

WithoutRow(table, j) == [x \in DOMAIN table \ {j} |-> table[x]]

\* C1: the status values of every job row follow pending -> generating ->
\* (completed or failed): a new row is first observable as pending, and a
\* status changes only from pending to generating or from generating to a
\* terminal status.
C1_StatusOrder ==
    [][\A j \in JobIds :
        /\ (j \notin DOMAIN job /\ j \in DOMAIN job') => job'[j].status = "pending"
        /\ (j \in DOMAIN job /\ j \in DOMAIN job' /\ job'[j].status # job[j].status)
             => <<job[j].status, job'[j].status>> \in
                  {<<"pending", "generating">>, <<"generating", "completed">>,
                   <<"generating", "failed">>}]_vars

\* C2: when the create call returns, the row it wrote has status pending and
\* the worker has not executed any statement yet.
C2_CreateWritesPending ==
    [][resp'.op = "create" =>
        /\ resp'.code = 200
        /\ resp'.job_id \in DOMAIN job'
        /\ job'[resp'.job_id].status = "pending"
        /\ worker'[resp'.job_id] = NewWorker]_vars

\* C3: once a job's status is completed or failed, no step changes it while
\* the row exists.
C3_TerminalIsFinal ==
    [][\A j \in DOMAIN job :
        (job[j].status \in Terminal /\ j \in DOMAIN job')
            => job'[j].status = job[j].status]_vars

\* C3 witness: a select has written to a completed job whose worker has
\* ended, and the job is still completed.
C3_Witness ==
    \E j \in DOMAIN job :
        /\ job[j].status = "completed"
        /\ worker[j].pc = "done"
        /\ job[j].selected_photo # NoPhoto
        /\ resp = Ok("select", job[j].user_id, j)

\* C4 as stated: a job the worker has moved to a terminal status is completed
\* iff at least one attempt produced an artifact, and failed iff no attempt
\* produced one or an exception escaped the loop.
C4_Original ==
    \A j \in DOMAIN job :
        job[j].status \in Terminal =>
            /\ (job[j].status = "completed" <=> Successes(j) >= 1)
            /\ (job[j].status = "failed" <=> (Successes(j) = 0 \/ Escaped(j)))

\* C4 amended: a job the worker has moved to a terminal status is completed
\* iff at least one attempt produced an artifact and no exception escaped the
\* per-candidate loop, and failed iff no attempt produced one or an exception
\* escaped.
C4_FinalizeOutcome ==
    \A j \in DOMAIN job :
        job[j].status \in Terminal =>
            /\ (job[j].status = "completed" <=> (Successes(j) >= 1 /\ ~Escaped(j)))
            /\ (job[j].status = "failed" <=> (Successes(j) = 0 \/ Escaped(j)))

\* C4 witness: the finalize write raised after two attempts had produced
\* artifacts, and the except clause has marked the job failed.
C4_Witness ==
    \E j \in DOMAIN job :
        /\ job[j].status = "failed"
        /\ worker[j].pc = "done"
        /\ Successes(j) = 2
        /\ Escaped(j)

\* C5 as stated: every worker that has ended made exactly four attempts, and
\* if k >= 1 of them succeeded its job is completed with exactly k artifacts.
C5_Original ==
    \A j \in DOMAIN worker :
        Ended(j) =>
            /\ Len(worker[j].attempted) = NumCandidates
            /\ (j \in DOMAIN job /\ Successes(j) >= 1) =>
                  /\ job[j].status = "completed"
                  /\ Len(job[j].photo_paths) = Successes(j)

\* C5 amended: once the generate module is imported the worker makes exactly
\* four attempts whatever subset of them fails; if k >= 1 of them succeeded and
\* the finalize UPDATE was committed, the job, while its row exists, is
\* completed with exactly the k artifacts of the successful attempts.
C5_FourAttempts ==
    \A j \in DOMAIN worker :
        /\ (worker[j].pc \notin {"import", "loop"} /\ worker[j].exc # ImportErrorMsg)
              => Len(worker[j].attempted) = NumCandidates
        /\ (worker[j].pc = "done" /\ ~Escaped(j) /\ j \in DOMAIN job
            /\ Successes(j) >= 1)
              => /\ job[j].status = "completed"
                 /\ Len(job[j].photo_paths) = Successes(j)
                 /\ job[j].photo_paths = NamesOf(j, worker[j].attempted, 1)

\* C5 witness: three attempts failed, the first among them, one succeeded,
\* and the job is completed with exactly one artifact.
C5_Witness ==
    \E j \in DOMAIN job :
        /\ worker[j].pc = "done"
        /\ Len(worker[j].attempted) = NumCandidates
        /\ ~worker[j].attempted[1]
        /\ Successes(j) = 1
        /\ job[j].status = "completed"
        /\ Len(job[j].photo_paths) = 1

SelectAllowed(j, photo) ==
    /\ j \in DOMAIN job
    /\ job[j].status = "completed"
    /\ \E k \in 1..Len(job[j].photo_paths) : job[j].photo_paths[k] = photo

\* C7: a select call passes its checks only if the job is completed and the
\* reference is in the job's list; in every other case it returns an error
\* (400 or 404); a select that returns an error leaves the job rows, the
\* artist records, the artist files and the photo files unchanged; and a
\* select that returns success writes a reference that is in the list of the
\* completed job.
C7_SelectGuard ==
    [][/\ \A u \in Users, j \in JobIds : \A p \in PhotoInputs(j) :
            (SelectCheck(u, j, p) /\ ~SelectAllowed(j, p))
                => /\ resp'.op = "select"
                   /\ resp'.code \in {400, 404}
                   /\ sel' = NoSel
       /\ (resp'.op = "select" /\ resp'.code \in {400, 404}) => UNCHANGED data
       /\ (resp'.op = "select" /\ resp'.code = 200 /\ resp'.job_id \in DOMAIN job')
            => /\ job'[resp'.job_id].status = "completed"
               /\ job'[resp'.job_id].selected_photo
                    \in Range(job'[resp'.job_id].photo_paths)]_vars

\* C7 witness: select of a reference that is not in the list of a completed
\* job with two artifacts has returned "Invalid photo selection".
C7_Witness ==
    /\ resp.op = "select"
    /\ resp.code = 400
    /\ resp.error = "Invalid photo selection"
    /\ resp.job_id \in DOMAIN job
    /\ job[resp.job_id].status = "completed"
    /\ Len(job[resp.job_id].photo_paths) = 2
    /\ job[resp.job_id].selected_photo = NoPhoto

\* What the operation answers for a job id that has no row.
AbsentResponse(op, u, j) ==
    CASE op = "get" -> GetResponse(WithoutRow(job, j), u, j)
      [] op = "select" -> SelectError(WithoutRow(job, j), u, j, NoPhoto)
      [] op = "delete" -> Err("delete", u, j, 404, "Job not found")

\* C8: get, select and delete by a user who does not own the job answer
\* exactly what they answer for an id without a row (404), and leave the job
\* rows, the photo files, and the artist records and files unchanged.
C8_NotOwnedIsNotFound ==
    [][(/\ resp'.op \in {"get", "select", "delete"}
        /\ resp'.job_id \in DOMAIN job
        /\ job[resp'.job_id].user_id # resp'.user)
          => /\ resp' = AbsentResponse(resp'.op, resp'.user, resp'.job_id)
             /\ resp'.code = 404
             /\ UNCHANGED <<data, sel>>]_vars

\* C8 witness: delete by the other user of a completed job has returned 404
\* and the job's files are all still there.
C8_Witness ==
    /\ resp.op = "delete"
    /\ resp.code = 404
    /\ resp.job_id \in DOMAIN job
    /\ job[resp.job_id].user_id # resp.user
    /\ job[resp.job_id].status = "completed"
    /\ Range(job[resp.job_id].photo_paths) \subseteq files

\* C9: a job whose selected_photo is set is completed and lists that photo.
C9_SelectedIsListed ==
    \A j \in DOMAIN job :
        job[j].selected_photo # NoPhoto
            => /\ job[j].status = "completed"
               /\ job[j].selected_photo \in Range(job[j].photo_paths)

\* C9 witness: the second of three artifacts is the selected one.
C9_Witness ==
    \E j \in DOMAIN job :
        /\ Len(job[j].photo_paths) = 3
        /\ job[j].selected_photo = job[j].photo_paths[2]

\* C10 as stated: once selected_photo of a job is set, no step changes it.
C10_Original ==
    [][\A j \in DOMAIN job :
        (job[j].selected_photo # NoPhoto /\ j \in DOMAIN job')
            => job'[j].selected_photo = job[j].selected_photo]_vars

\* C10 amended: once selected_photo of a job is set it is never cleared, and
\* the only step that changes it is a successful select by the job's owner,
\* which sets it to another element of the job's list.
C10_SelectedChangesBySelectOnly ==
    [][\A j \in DOMAIN job :
        (job[j].selected_photo # NoPhoto /\ j \in DOMAIN job'
         /\ job'[j].selected_photo # job[j].selected_photo)
            => /\ resp' = Ok("select", job[j].user_id, j)
               /\ job'[j].selected_photo \in Range(job[j].photo_paths)]_vars

\* C10 witness: a job has a selected photo and a second select of its owner,
\* for another photo of the list, has passed its checks.
C10_Witness ==
    \E j \in DOMAIN job :
        /\ job[j].selected_photo # NoPhoto
        /\ sel.job_id = j
        /\ sel.user = job[j].user_id
        /\ sel.photo # job[j].selected_photo
        /\ sel.photo \in Range(job[j].photo_paths)

\* C11: a select that returns success leaves the job's selected_photo equal
\* to the photo of the request, whatever it was before; and the writes of a
\* select (job row, user artist row, artist file) done a second time give
\* the state they gave the first time.
C11_SelectOverwritesIdempotent ==
    /\ [][(resp'.op = "select" /\ resp'.code = 200 /\ resp'.job_id \in DOMAIN job')
            => job'[resp'.job_id].selected_photo = sel.photo]_vars
    /\ [](sel # NoSel =>
            LET once == SelectWrites(job, user_artists, artist_files, sel)
                twice == SelectWrites(once.job, once.user_artists,
                                      once.artist_files, sel)
            IN twice = once)

\* C11 witness: a select of another photo of the list has passed its checks
\* while a photo is already selected.
C11_Witness ==
    /\ sel # NoSel
    /\ sel.job_id \in DOMAIN job
    /\ job[sel.job_id].selected_photo # NoPhoto
    /\ job[sel.job_id].selected_photo # sel.photo
    /\ user_artists[<<1, "nova">>] = PhotoUrl(job[sel.job_id].selected_photo)

C13_PollFinality ==
    [][(resp'.op = "get" /\ resp'.code = 200 /\ polled[resp'.job_id] # <<>>)
            => resp'.body.photo_paths = polled[resp'.job_id][1]]_vars

\* C13 witness: a get of a completed job with three photos, polled before,
\* has returned after the third photo was selected.
C13_Witness ==
    /\ resp.op = "get"
    /\ resp.code = 200
    /\ polled[resp.job_id] # <<>>
    /\ Len(polled[resp.job_id][1]) = 3
    /\ resp.body.selected_photo = resp.body.photo_paths[3]

\* The handler invocations of user u that are between setting
\* active_generations[u] and the pop of their finally clause.
InWindow(u) == {t \in TaskIds : task[t].user = u /\ task[t].pc \in WindowPcs}

\* C14: for every user at most one generation handler is between setting
\* active_generations[user_id] and clearing it, whatever the interleaving of
\* the handlers at their awaits; a handler called for a user while another
\* is in that window goes to the busy reply, and a handler that went to the
\* busy reply returns without calling run_generate.
C14_OneHandlerPerUser ==
    /\ [](\A u \in Users : Cardinality(InWindow(u)) <= 1)
    /\ [][\A t \in TaskIds, u \in Users, kind \in HandlerKinds, args_ok \in BOOLEAN :
            (BotStart(t, u, kind, args_ok) /\ InWindow(u) # {})
                => task'[t].pc = "busy_reply"]_vars
    /\ [][\A t \in TaskIds :
            task[t].pc = "busy_reply"
                => /\ task'[t].pc \in {"busy_reply", "done"}
                   /\ ~task'[t].ran
                   /\ (task'[t].pc = "done" =>
                         task'[t].replies \in {<<>>, <<BusyReply>>})]_vars

\* C14 witness: a second request of a user has been answered with the busy
\* reply while the user's first handler, after run_generate, is at the await
\* of its summary reply.
C14_Witness ==
    \E t1, t2 \in TaskIds :
        /\ t1 # t2
        /\ task[t1].user = task[t2].user
        /\ task[t1].pc = "summary_reply"
        /\ task[t1].ran
        /\ task[t2].pc = "done"
        /\ task[t2].replies = <<BusyReply>>
        /\ ~task[t2].ran

\* C15: a user is a key of active_generations only while a handler of that
\* user is between setting the marker and its finally clause: every way out
\* of the handler after the marker was set, the progress reply raising
\* included, has cleared the marker.
C15_MarkerCleared ==
    \A u \in active_generations : InWindow(u) # {}

\* The api_generate requests of user u whose child process is running.
Running(u) == {p \in Slots : proc[p].user = u /\ proc[p].pc = "running"}

\* C16: no user has two child processes started by api_generate running at
\* the same time.
C16_OneChildPerUser ==
    \A u \in Users : Cardinality(Running(u)) <= 1

\* C17: a generation request with valid arguments is rejected as busy if and
\* only if the requesting user has a generation handler of their own in its
\* window, whatever the other users' markers are; and a step of a handler
\* leaves every other user's marker as it was.
C17_PerActor ==
    /\ [][\A t \in TaskIds, u \in Users, kind \in HandlerKinds :
            BotStart(t, u, kind, TRUE)
                => (task'[t].pc = "busy_reply" <=> InWindow(u) # {})]_vars
    /\ [][\A t \in TaskIds :
            task'[t] # task[t]
                => active_generations' \ {task'[t].user}
                       = active_generations \ {task'[t].user}]_vars

\* The request of slot p returns in this step after its child process has
\* exited: with 200, or with the 500 of a failed INSERT.
Exited(p) ==
    /\ proc[p].pc = "running"
    /\ proc'[p] = NoProc
    /\ (gresp'.code = 200 \/ gresp'.error = DbErrorMsg)

C19_FailureLeavesSongs ==
    [][\A p \in Slots :
        (\/ proc[p].pc = "running" /\ proc'[p] = NoProc /\ ApiGenerateTimeout(p)
         \/ proc[p] = NoProc /\ proc'[p] = NoProc
                /\ \E u \in Users : ApiGenerateStart(p, u))
            => /\ gresp'.code = 500
               /\ ~gresp'.success
               /\ songs' = songs]_vars

\* C19 witness: a request has answered "Generation timed out" and both rows
\* written by earlier requests are in the table.
C19_Witness ==
    /\ gresp.code = 500
    /\ gresp.error = TimeoutMsg
    /\ DOMAIN songs = {1, 2}

\* C20: in the bot, the reply with the timeout text of run_generate is not
\* followed by the "generation complete but no audio file found" reply.
C20_TimeoutNotNoAudio ==
    \A t \in TaskIds : \A k \in 1..(Len(task[t].replies) - 1) :
        task[t].replies[k] = TimeoutText => task[t].replies[k + 1] # NoAudioReply

\* The value of the last line of stdout with the key, <<>> when there is none.
RECURSIVE SearchLast(_, _)
SearchLast(stdout, key) ==
    IF stdout = <<>> THEN <<>>
    ELSE IF stdout[Len(stdout)].key = key THEN <<stdout[Len(stdout)].value>>
    ELSE SearchLast(SubSeq(stdout, 1, Len(stdout) - 1), key)

\* C21: the values api_generate extracts are those of the last occurrence of
\* each marker: the response's audio_file is the last AUDIO_FILE value, and
\* the row written has the last SONG_ID value as id and the last AUDIO_FILE
\* value as file_path.
C21_LastOccurrence ==
    [][\A p \in Slots :
        (Exited(p) /\ gresp'.code = 200)
            => LET song_id == SearchLast(gresp'.output, "SONG_ID")
                   audio == SearchLast(gresp'.output, "AUDIO_FILE")
               IN
               /\ gresp'.audio_file = IF audio # <<>> THEN audio[1] ELSE NULL
               /\ (song_id # <<>> /\ audio # <<>>)
                    => /\ ParseInt(song_id[1]) \in DOMAIN songs'
                       /\ songs'[ParseInt(song_id[1])].file_path = audio[1]]_vars

\* C22: a worker that has ended leaves its job, while the row exists, in
\* completed or failed: no failure ends the worker with the job still in
\* generating.
C22_WorkerEndsTerminal ==
    \A j \in DOMAIN job : Ended(j) => job[j].status \in Terminal

\* The photo_url of the artist a select of user u for artist a writes.
TargetUrl(ua, af, u, a) ==
    IF <<u, a>> \in DOMAIN ua THEN ua[<<u, a>>] ELSE af[a].photo_url

\* C23: a select that returns success for a job that names an artist leaves
\* the artist's photo_url at the selected photo; and no step of a select
\* changes an artist's photo_url without leaving the job's selected_photo at
\* the photo of that select.
C23_SelectAtomic ==
    [][/\ (resp'.op = "select" /\ resp'.code = 200 /\ sel.artist_filename # NULL)
            => TargetUrl(user_artists', artist_files', sel.user,
                         sel.artist_filename) = PhotoUrl(sel.photo)
       /\ \A j \in DOMAIN job \cap DOMAIN job' :
            (sel.job_id = j
             /\ (artist_files' # artist_files \/ user_artists' # user_artists))
                => job'[j].selected_photo = sel.photo]_vars

\* C24: the list of a completed job holds, for each attempt i of 1..4 that
\* succeeded and for no other, the name job_<id>_option_<i>, in strictly
\* increasing i.
C24_ListByAttemptIndex ==
    \A j \in DOMAIN job :
        job[j].status = "completed" =>
            LET paths == job[j].photo_paths IN
            /\ Len(worker[j].attempted) = NumCandidates
            /\ \A k \in 1..Len(paths) :
                    paths[k][1] = j /\ paths[k][2] \in 1..NumCandidates
            /\ \A i \in 1..NumCandidates :
                    (<<j, i>> \in Range(paths)) <=> worker[j].attempted[i]
            /\ \A k \in 1..(Len(paths) - 1) : paths[k][2] < paths[k + 1][2]

\* C24 witness: attempts 2 and 4 succeeded, 1 and 3 failed, and the job is
\* completed with option 2 then option 4.
C24_Witness ==
    \E j \in DOMAIN job :
        /\ job[j].status = "completed"
        /\ worker[j].attempted = <<FALSE, TRUE, FALSE, TRUE>>
        /\ job[j].photo_paths = <<<<j, 2>>, <<j, 4>>>>

\* C25: for every job row, error is set only if status is failed, the list
\* is empty while status is pending or generating and non-empty when it is
\* completed, and completed_at is set exactly when status is completed or
\* failed.
C25_RowInvariant ==
    \A j \in DOMAIN job :
        /\ job[j].error # NULL => job[j].status = "failed"
        /\ job[j].status \in {"pending", "generating"} => job[j].photo_paths = <<>>
        /\ job[j].status = "completed" => job[j].photo_paths # <<>>
        /\ job[j].completed_at <=> job[j].status \in Terminal

\* C25 witness: the finalize write raised after three attempts had produced
\* files; the except clause has written failed, the error and completed_at,
\* and the list is empty.
C25_Witness ==
    \E j \in DOMAIN job :
        /\ job[j].status = "failed"
        /\ job[j].error = DbErrorMsg
        /\ job[j].completed_at
        /\ job[j].photo_paths = <<>>
        /\ Successes(j) = 3

\* C26: once a job's row has been deleted, the delete has returned and the
\* job's worker has ended, no file job_<id>_option_<i> of that job is in the
\* photo directory.
C26_DeleteReclaimsFiles ==
    \A j \in DOMAIN worker :
        (j \notin DOMAIN job /\ del = NoDel /\ Ended(j))
            => \A i \in 0..(NumCandidates - 1) : DestFilename(j, i) \notin files

\* C28: every photo_url an artist row or artist file carries names a file
\* that is in the photo directory.
C28_NoDanglingPortrait ==
    /\ \A k \in DOMAIN user_artists :
            user_artists[k] # NoPhoto => user_artists[k][2] \in files
    /\ \A n \in DOMAIN artist_files :
            artist_files[n].photo_url # NoPhoto
                => artist_files[n].photo_url[2] \in files

\* C29: an api_generate request of a user leaves every songs row of another
\* user in the table with the fields it had.
C29_OtherUsersRowsKept ==
    [][\A p \in Slots :
        Exited(p)
            => \A id \in DOMAIN songs :
                    songs[id].user_id # proc[p].user
                        => /\ id \in DOMAIN songs'
                           /\ songs'[id] = songs[id]]_vars

\* C30: a handler that goes to the busy reply or to the usage reply, and the
\* end of that reply, leave active_generations as it was; and a user whose
\* handler is between the set and its finally clause stays a key.
C30_RejectLeavesMarkers ==
    /\ [][\A t \in TaskIds :
            (/\ task'[t] # task[t]
             /\ \/ task'[t].pc \in {"busy_reply", "usage_reply"}
                \/ task[t].pc \in {"busy_reply", "usage_reply"})
                => active_generations' = active_generations]_vars
    /\ [](\A u \in Users : InWindow(u) # {} => u \in active_generations)

\* C30 witness: a request of a user was answered with the busy reply while
\* the user's first handler is sending its audio, and the user is still a
\* key of active_generations.
C30_Witness ==
    \E t1, t2 \in TaskIds :
        /\ task[t1].pc = "audio_reply"
        /\ task[t2].user = task[t1].user
        /\ task[t2].pc = "done"
        /\ task[t2].replies = <<BusyReply>>
        /\ task[t1].user \in active_generations

\* C27: a job id whose row was deleted has no row in any later state,
\* whatever the worker of that job writes afterwards and whatever job is
\* created later, and every get, select or delete of that id that starts
\* after the deletion answers 404.
C27_DeletedStaysDeleted ==
    [][\A j \in LaterJobIds :
        (j < nextId /\ j \notin DOMAIN job)
            => /\ j \notin DOMAIN job'
               /\ (/\ resp'.op \in {"get", "select", "delete"}
                   /\ resp'.job_id = j
                   /\ ~(sel # NoSel /\ sel' = NoSel))
                    => resp'.code = 404]_vars

\* C27 witness: after job 1 was deleted its worker has committed its
\* finalize UPDATE, a second job was created and is completed, and a get of
\* job 1 by the second job's owner has answered 404.
C27_Witness ==
    /\ 1 \notin DOMAIN job
    /\ worker[1].pc = "done"
    /\ 2 \in DOMAIN job
    /\ job[2].status = "completed"
    /\ resp = Err("get", job[2].user_id, 1, 404, "Job not found")

====
